---- MODULE Spec2Model ----
(***************************************************************************)
(* Model of src/server.py: a websocket control plane for GStreamer         *)
(* pipelines.                                                              *)
(*                                                                         *)
(* Two execution contexts:                                                 *)
(*   - the asyncio event loop (dispatch context): the connection handlers  *)
(*     (handle_websocket), the telemetry coroutine (send_stats_updates)    *)
(*     and the send tasks created by broadcast_message's gather.  A        *)
(*     coroutine runs without interruption from one await to the next, so  *)
(*     every action of this context is the code between two awaits.        *)
(*   - the GLib main loop thread (engine context), which runs the bus      *)
(*     watch GstreamerPipeline.bus_callback.                               *)
(*                                                                         *)
(* Gst, GLib and the websockets library are modelled at the interface the  *)
(* code uses; their results the code cannot determine (a rejected          *)
(* descriptor, a refused state change, a closed connection) are inputs.    *)
(*                                                                         *)
(* Spec is the program while it serves; ShutdownSpec adds the shutdown      *)
(* coroutine that SIGINT or SIGTERM starts.                                 *)
(*                                                                         *)
(* What a handler does with one message is a function of the state and the *)
(* message: the operators ...Effect compute the new state and the reply,   *)
(* the actions apply them.                                                 *)
(***************************************************************************)
EXTENDS Integers, Sequences, FiniteSets, TLC

\* Bounds of the model.
MaxLeaked == 1              \* objects replaced in the dict and never deleted
Ids == {"p1", "p2"}         \* pipeline ids a client can name
Clients == {"ws1", "ws2"}   \* websocket connections
None == "None"       \* Python's None / an absent key

\* Classes of the 'elements' list of a createPipeline payload: absent, [],
\* a list Gst.parse_launch accepts, a list Gst.parse_launch raises on.
ElementInputs == {"missing", "empty", "valid", "rejected"}

\* Gst.StateChangeReturn of set_state as far as the code distinguishes it.
StateChangeReturns == {"SUCCESS", "FAILURE"}

\* PIPELINE_STATES, in the order of Gst.State.
PIPELINE_STATES == <<"NULL", "READY", "PAUSED", "PLAYING">>

VARIABLES
    pipelines,   \* the dict 'pipelines', in insertion order: Seq of [id, obj],
                 \* obj the GstreamerPipeline object stored under id
    leaked,      \* how many objects a later createPipeline has replaced in the
                 \* dict: never deleted, engine pipeline and bus watch still
                 \* live, unreachable from the dict
    clients,     \* the set 'clients'
    conn,        \* per websocket: "none" (no connection, no handler), "open",
                 \* "closed" (connection closed, handler still running)
    statsPc,     \* send_stats_updates: "sleep" | "gather" | "backoff"
    statsIter,   \* the dict iterator of line 264 while statsPc = "gather"
    gather,      \* the gather of line 255 in flight: [msg, pending], pending
                 \* the clients whose send task has not run yet
    loopCalls,   \* coroutines handed to the event loop by run_coroutine_threadsafe
    shutdownTask \* shutdown(): [pc, pending, mainloop, accepting]: pc "none"
                 \* (no signal yet) | "closing" (awaiting the gather of line
                 \* 537) | "stopped"; pending the clients whose close() has
                 \* not returned; mainloop the GLib main loop, "running" or
                 \* "quit"; accepting whether the server takes connections

vars == <<pipelines, leaked, clients, conn, statsPc, statsIter, gather, loopCalls,
          shutdownTask>>

----------------------------------------------------------------------------
\* Messages

M(type, id, code, state) == [type |-> type, id |-> id, code |-> code, state |-> state]

NoMsg == M("none", None, None, None)
NoIter == [idx |-> 0, len |-> 0, used |-> 0]
NoGather == [msg |-> NoMsg, pending |-> {}]
NoShutdown == [pc |-> "none", pending |-> {}, mainloop |-> "running",
               accepting |-> TRUE]

----------------------------------------------------------------------------
\* The registry dict

RegIds == {pipelines[i].id : i \in DOMAIN pipelines}
IndexOf(id) == CHOOSE i \in DOMAIN pipelines : pipelines[i].id = id
Lookup(id) == pipelines[IndexOf(id)].obj

\* pipelines[id] = obj: a new key is appended, an existing key keeps its place
\* and has its value replaced.
DictSet(id, obj) ==
    IF id \in RegIds
    THEN [pipelines EXCEPT ![IndexOf(id)] = [id |-> id, obj |-> obj]]
    ELSE Append(pipelines, [id |-> id, obj |-> obj])

\* A del that drops the oldest entry, whatever the key
DictDelOldest(id) ==
    [i \in 1..(Len(pipelines) - 1) |-> pipelines[i + 1]]

\* del pipelines[id]
DictDel(id) ==
    LET k == IndexOf(id)
    IN  [i \in 1..(Len(pipelines) - 1) |->
            IF i < k THEN pipelines[i] ELSE pipelines[i + 1]]

\* The effect of del pipelines[id] on a live iterator: CPython leaves a hole
\* in the entry array, so deleting an entry before the iterator's position
\* does not move the entries after it.
IterAfterDel(it, id) ==
    IF IndexOf(id) <= it.idx THEN [it EXCEPT !.idx = @ - 1] ELSE it

----------------------------------------------------------------------------
\* GstreamerPipeline.  An object is [id, pipeline, bus_watch_id, state, target]:
\* pipeline and bus_watch_id say whether the field is set (not None); state and
\* target are the engine pipeline's current state and the state last requested
\* of it.  description, elements, stats and error are written and never read
\* by the code modelled here.

\* The states a Gst.State value can take
GstStates == {"VOID_PENDING", "NULL", "READY", "PAUSED", "PLAYING"}

\* PIPELINE_STATES.get(state, "UNKNOWN")
StateName(state) ==
    IF \E i \in DOMAIN PIPELINE_STATES : PIPELINE_STATES[i] = state
    THEN state ELSE "UNKNOWN"

\* __init__ for an engine whose new pipelines start in READY
NewHandleReady(id) ==
    [id |-> id, pipeline |-> FALSE, bus_watch_id |-> FALSE,
     state |-> "READY", target |-> "NULL"]

\* __init__
NewHandle(id) ==
    [id |-> id, pipeline |-> FALSE, bus_watch_id |-> FALSE,
     state |-> "NULL", target |-> "NULL"]

\* create() failing after the bus watch was added: the pipeline and its watch
\* stay on the object that is thrown away
createFailingLate(self, elements) ==
    IF elements \in {"rejected", "empty", "missing"}
    THEN [self |-> [self EXCEPT !.pipeline = TRUE, !.bus_watch_id = TRUE],
          result |-> M("result", self.id, "creation-failed", None)]
    ELSE [self |-> [self EXCEPT !.pipeline = TRUE, !.bus_watch_id = TRUE],
          result |-> M("result", self.id, None, "NULL")]

\* create(): [self, result].  Gst.parse_launch raises on a description it
\* rejects, which the empty string (no elements joined) is.
create(self, elements) ==
    IF elements \in {"rejected", "empty", "missing"}
    THEN [self |-> self,
          result |-> M("result", self.id, "creation-failed", None)]
    ELSE [self |-> [self EXCEPT !.pipeline = TRUE, !.bus_watch_id = TRUE],
          result |-> M("result", self.id, None, "NULL")]

\* start(): [self, result]
start(self, ret) ==
    IF ~self.pipeline
    THEN [self |-> self, result |-> M("result", self.id, "not-created", None)]
    ELSE IF ret = "FAILURE"
    THEN [self |-> self, result |-> M("result", self.id, "start-failed", None)]
    ELSE [self |-> [self EXCEPT !.target = "PLAYING"],
          result |-> M("result", self.id, None, "PLAYING")]

\* stop(): [self, result]
stop(self, ret) ==
    IF ~self.pipeline
    THEN [self |-> self, result |-> M("result", self.id, "not-created", None)]
    ELSE IF ret = "FAILURE"
    THEN [self |-> self, result |-> M("result", self.id, "stop-failed", None)]
    ELSE [self |-> [self EXCEPT !.target = "PAUSED"],
          result |-> M("result", self.id, None, "PAUSED")]

\* delete() without the 'if self.pipeline' guard of line 146: releasing a
\* pipeline that is not there is an error
deleteUnguarded(self) ==
    IF self.pipeline
    THEN [self |-> [self EXCEPT !.state = "NULL", !.target = "NULL",
                                !.bus_watch_id = FALSE, !.pipeline = FALSE],
          result |-> M("result", self.id, None, None)]
    ELSE [self |-> self, result |-> M("result", self.id, "not-created", None)]

\* delete(): [self, result]
delete(self) ==
    [self |-> IF self.pipeline
              THEN [self EXCEPT !.state = "NULL", !.target = "NULL",
                                !.bus_watch_id = FALSE, !.pipeline = FALSE]
              ELSE self,
     result |-> M("result", self.id, None, None)]

\* delete() statement by statement: the object after the bus watch is
\* removed (lines 145-150) and after the engine pipeline is dropped (line 152)
deleteSteps(self) ==
    IF self.pipeline
    THEN <<[self EXCEPT !.state = "NULL", !.target = "NULL",
                        !.bus_watch_id = FALSE],
           [self EXCEPT !.state = "NULL", !.target = "NULL",
                        !.bus_watch_id = FALSE, !.pipeline = FALSE]>>
    ELSE <<self, self>>

\* get_status(): the state name reported
get_status(self) == IF ~self.pipeline THEN "NULL" ELSE StateName(self.state)

----------------------------------------------------------------------------
\* The engine context: the bus watch on the GLib thread

\* The state an accepted state change ends in.  Gst passes through the states
\* in between (READY, PAUSED); the code compares a state to "PLAYING" only, and
\* the model takes the change as one step of the engine.
StepToward(state, target) == target

\* asyncio.get_event_loop() as resolved on a thread: inside a coroutine of the
\* event loop it is the running loop; on the GLib thread (a bare
\* threading.Thread running mainloop.run(), which sets no loop) it raises
\* RuntimeError, here None.
get_event_loop(thread) == IF thread = "asyncio" THEN "loop" ELSE None

\* asyncio.run_coroutine_threadsafe(broadcast_message(msg), asyncio.get_event_loop())
\* evaluated on 'thread' with 'calls' already handed to the loop: [calls, outcome]
run_coroutine_threadsafe(msg, thread, calls) ==
    IF get_event_loop(thread) = None
    THEN [calls |-> calls, outcome |-> "RuntimeError"]
    ELSE [calls |-> Append(calls, msg), outcome |-> "scheduled"]

\* bus_message without the 'message.src == self.pipeline' test of line 229
bus_messageAnySource(self, kind, new_state) ==
    CASE kind = "ERROR" -> M("pipelineError", self.id, "gst-error", None)
      [] kind = "EOS" -> M("pipelineStateChanged", self.id, None, "NULL")
      [] kind \in {"STATE_CHANGED", "STATE_CHANGED_ELEMENT"} ->
            M("pipelineStateChanged", self.id, None, StateName(new_state))
      [] OTHER -> NoMsg

\* The message bus_callback builds for a bus message, NoMsg when it builds none.
\* kind: "ERROR", "EOS", "STATE_CHANGED" (message.src is the pipeline),
\* "STATE_CHANGED_ELEMENT" (message.src is an element of it).
bus_message(self, kind, new_state) ==
    CASE kind = "ERROR" -> M("pipelineError", self.id, "gst-error", None)
      [] kind = "EOS" -> M("pipelineStateChanged", self.id, None, "NULL")
      [] kind = "STATE_CHANGED" ->
            M("pipelineStateChanged", self.id, None, StateName(new_state))
      [] OTHER -> NoMsg

\* bus_callback(bus, message), run by the bus watch on the GLib thread:
\* [calls, outcome]
bus_callback(self, kind, new_state, calls) ==
    LET msg == bus_message(self, kind, new_state)
    IN  IF msg = NoMsg
        THEN [calls |-> calls, outcome |-> "ignored"]
        ELSE run_coroutine_threadsafe(msg, "glib", calls)

\* The engine completes the state change in progress of the pipeline
\* registered under id and posts STATE_CHANGED on its bus; the bus watch runs
\* bus_callback.
EngineStep(id) ==
    /\ id \in RegIds
    /\ Lookup(id).bus_watch_id
    /\ Lookup(id).state # Lookup(id).target
    /\ LET new == StepToward(Lookup(id).state, Lookup(id).target)
           obj == [Lookup(id) EXCEPT !.state = new]
       IN  /\ pipelines' = [pipelines EXCEPT ![IndexOf(id)].obj = obj]
           /\ loopCalls' = bus_callback(obj, "STATE_CHANGED", new, loopCalls).calls
    /\ UNCHANGED <<leaked, clients, conn, statsPc, statsIter, gather,
                 shutdownTask>>

\* The engine posts ERROR, EOS or an element's STATE_CHANGED on the bus of the
\* pipeline registered under id; the bus watch runs bus_callback.
EngineEvent(id, kind) ==
    /\ id \in RegIds
    /\ Lookup(id).bus_watch_id
    /\ loopCalls' = bus_callback(Lookup(id), kind, None, loopCalls).calls
    /\ UNCHANGED <<pipelines, leaked, clients, conn, statsPc, statsIter, gather,
                 shutdownTask>>

----------------------------------------------------------------------------
\* handle_websocket: one action per message type; each runs from the message's
\* arrival to the await of its reply.  What a command does to the state does
\* not depend on which connected client sent it; the reply goes to its sender.

\* The handler of websocket c is in its receive loop with a message to
\* process: messages received before the connection closed are still handed
\* out after it.
Receiving(c) == c \in clients /\ conn[c] \in {"open", "closed"}

\* One 'await websocket.send(json.dumps(msg))' of the handler of c: the frame
\* is written when the connection is open, ConnectionClosed is raised (and
\* logged by the handler) otherwise.
Send(c, msg) == [to |-> c, msg |-> msg, ok |-> (conn[c] = "open")]

\* 'not pipeline_id or pipeline_id not in pipelines'
NotFound(id) == id = None \/ id \notin RegIds

\* NotFoundReply with the error code of a handle that has no engine pipeline
NotFoundReplyAsNotCreated(id) == M("pipelineError", id, "not-created", None)

\* The pipelineError reply of an unknown id
NotFoundReply(id) == M("pipelineError", id, "not-found", None)

\* The reply to a start or stop result: '"errorCode" in result'
StateReply(result) ==
    IF result.code # None
    THEN [result EXCEPT !.type = "pipelineError"]
    ELSE [result EXCEPT !.type = "pipelineStateChanged"]

\* What a handler step leaves: the dict, the leaked objects, the telemetry
\* iterator, the reply, and whether the engine (Gst) was called.
Effect(reg, lk, it, reply, engine) ==
    [pipelines |-> reg, leaked |-> lk, statsIter |-> it, reply |-> reply,
     engine |-> engine]

\* createPipeline without the '"errorCode" in result' test of line 335: the
\* object is stored whatever create() returned
CreateEffectStoringFailures(id, elements) ==
    IF elements \in {"missing", "empty"}
    THEN Effect(pipelines, leaked, statsIter,
                M("pipelineError", id, "invalid-pipeline", None), FALSE)
    ELSE LET r == create(NewHandle(id), elements)
         IN  Effect(DictSet(id, r.self),
                    IF id \in RegIds /\ Lookup(id).pipeline
                    THEN leaked + 1 ELSE leaked,
                    statsIter,
                    IF r.result.code # None
                    THEN [r.result EXCEPT !.type = "pipelineError"]
                    ELSE [r.result EXCEPT !.type = "pipelineCreated"], TRUE)

\* createPipeline without the 'if not elements' check of lines 320-330
CreateEffectUnvalidated(id, elements) ==
    LET r == create(NewHandle(id), elements)
    IN  IF r.result.code # None
        THEN Effect(pipelines, leaked, statsIter,
                    [r.result EXCEPT !.type = "pipelineError"], TRUE)
        ELSE Effect(DictSet(id, r.self),
                    IF id \in RegIds /\ Lookup(id).pipeline
                    THEN leaked + 1 ELSE leaked,
                    statsIter,
                    [r.result EXCEPT !.type = "pipelineCreated"], TRUE)

\* createPipeline
CreateEffect(id, elements) ==
    IF elements \in {"missing", "empty"}
    THEN Effect(pipelines, leaked, statsIter,
                M("pipelineError", id, "invalid-pipeline", None), FALSE)
    ELSE LET r == create(NewHandle(id), elements)
         IN  IF r.result.code # None
             THEN Effect(pipelines, leaked, statsIter,
                         [r.result EXCEPT !.type = "pipelineError"], TRUE)
             ELSE Effect(DictSet(id, r.self),
                         IF id \in RegIds /\ Lookup(id).pipeline
                         THEN leaked + 1 ELSE leaked,
                         statsIter,
                         [r.result EXCEPT !.type = "pipelineCreated"], TRUE)

\* startPipeline
StartEffect(id, ret) ==
    IF NotFound(id)
    THEN Effect(pipelines, leaked, statsIter, NotFoundReply(id), FALSE)
    ELSE LET r == start(Lookup(id), ret)
         IN  Effect([pipelines EXCEPT ![IndexOf(id)].obj = r.self], leaked,
                    statsIter, StateReply(r.result), TRUE)

\* stopPipeline
StopEffect(id, ret) ==
    IF NotFound(id)
    THEN Effect(pipelines, leaked, statsIter, NotFoundReply(id), FALSE)
    ELSE LET r == stop(Lookup(id), ret)
         IN  Effect([pipelines EXCEPT ![IndexOf(id)].obj = r.self], leaked,
                    statsIter, StateReply(r.result), TRUE)

\* deletePipeline with the del put off until after the reply is sent: the
\* deleted object stays in the dict while other handlers run
DeleteEffectKeepingEntry(id) ==
    IF NotFound(id)
    THEN Effect(pipelines, leaked, statsIter, NotFoundReply(id), FALSE)
    ELSE LET r == delete(Lookup(id))
         IN  Effect([pipelines EXCEPT ![IndexOf(id)].obj = r.self], leaked,
                    statsIter,
                    [r.result EXCEPT !.type = "pipelineDeleted"], TRUE)

\* deletePipeline
DeleteEffect(id) ==
    IF NotFound(id)
    THEN Effect(pipelines, leaked, statsIter, NotFoundReply(id), FALSE)
    ELSE LET r == delete(Lookup(id))
         IN  Effect(DictDel(id), leaked,
                    IF statsPc = "gather" THEN IterAfterDel(statsIter, id)
                    ELSE statsIter,
                    [r.result EXCEPT !.type = "pipelineDeleted"], TRUE)

\* The removal of lines 430-431 (and 528-529) statement by statement: the
\* object and whether its id is still a key of the dict after each
RemoveSteps(id) ==
    LET d == deleteSteps(Lookup(id))
    IN  <<[registered |-> TRUE, obj |-> d[1]],
          [registered |-> TRUE, obj |-> d[2]],
          [registered |-> FALSE, obj |-> d[2]]>>

\* A handler step with effect e
Apply(e) ==
    /\ pipelines' = e.pipelines
    /\ leaked' = e.leaked
    /\ statsIter' = e.statsIter
    /\ UNCHANGED <<clients, conn, statsPc, gather, loopCalls,
                 shutdownTask>>

CreatePipeline(id, elements) ==
    /\ \E c \in Clients : Receiving(c)
    /\ CreateEffect(id, elements).leaked <= MaxLeaked
    /\ Apply(CreateEffect(id, elements))

StartPipeline(id, ret) ==
    /\ \E c \in Clients : Receiving(c)
    /\ Apply(StartEffect(id, ret))

StopPipeline(id, ret) ==
    /\ \E c \in Clients : Receiving(c)
    /\ Apply(StopEffect(id, ret))

DeletePipeline(id) ==
    /\ \E c \in Clients : Receiving(c)
    /\ Apply(DeleteEffect(id))

\* The statuses listed newest first
PipelinesListNewestFirst ==
    [i \in DOMAIN pipelines |->
        [id |-> pipelines[Len(pipelines) + 1 - i].obj.id,
         state |-> get_status(pipelines[Len(pipelines) + 1 - i].obj)]]

\* '[pipeline.get_status() for pipeline in pipelines.values()]': the status
\* of every stored object, in the dict's order
PipelinesList ==
    [i \in DOMAIN pipelines |->
        [id |-> pipelines[i].obj.id, state |-> get_status(pipelines[i].obj)]]

\* The pipelinesList message
ListMsg(list) == [type |-> "pipelinesList", pipelines |-> list]

\* getPipelines
GetPipelinesEffect ==
    Effect(pipelines, leaked, statsIter, ListMsg(PipelinesList), FALSE)

GetPipelines ==
    /\ \E c \in Clients : Receiving(c)
    /\ Apply(GetPipelinesEffect)

\* The other inbound messages: a ping, a type no branch matches, text that is
\* not JSON, JSON that is not an object
OtherInputs == {"ping", "unknown", "malformed", "not-object"}

\* A handler whose try/except is around the receive loop, not inside it: an
\* exception ends the handler, whose finally removes the client
OtherEffectLeavingLoop(c, kind) ==
    [reply |-> IF kind = "ping" THEN M("pong", None, None, None) ELSE NoMsg,
     pipelines |-> pipelines,
     clients |-> IF kind \in {"malformed", "not-object"} THEN clients \ {c}
                 ELSE clients,
     conn |-> IF kind \in {"malformed", "not-object"}
              THEN [conn EXCEPT ![c] = "none"] ELSE conn]

\* What the handler of c does with one of them: [reply, pipelines, clients,
\* conn].  ping is answered with pong; an unknown type matches no branch;
\* json.loads raises JSONDecodeError on text that is not JSON and data.get
\* raises AttributeError on JSON that is not an object, both caught inside
\* the receive loop (lines 450-453), which goes on to the next message.
OtherEffect(c, kind) ==
    [reply |-> IF kind = "ping" THEN M("pong", None, None, None) ELSE NoMsg,
     pipelines |-> pipelines,
     clients |-> clients,
     conn |-> conn]

OtherMessage(c, kind) ==
    /\ Receiving(c)
    /\ pipelines' = OtherEffect(c, kind).pipelines
    /\ clients' = OtherEffect(c, kind).clients
    /\ conn' = OtherEffect(c, kind).conn
    /\ UNCHANGED <<leaked, statsPc, statsIter, gather, loopCalls, shutdownTask>>

\* What the start of handle_websocket for a new websocket c leaves:
\* clients.add (line 282), then the pipelinesList snapshot sent to c (lines
\* 288-295), with no await between the two.
ConnectEffect(c) ==
    [clients |-> clients \cup {c},
     conn |-> [conn EXCEPT ![c] = "open"],
     reply |-> ListMsg(PipelinesList)]

\* A new connection: register the client, send the pipelines list.  A websocket
\* identity is taken again only when no send or close task still holds the old
\* object.
Connect(c) ==
    /\ conn[c] = "none"
    /\ c \notin gather.pending
    /\ c \notin shutdownTask.pending
    /\ shutdownTask.accepting
    /\ clients' = ConnectEffect(c).clients
    /\ conn' = ConnectEffect(c).conn
    /\ UNCHANGED <<pipelines, leaked, statsPc, statsIter, gather, loopCalls,
                 shutdownTask>>

\* The connection of c closes (either end); its handler has not noticed yet.
ConnectionLost(c) ==
    /\ conn[c] = "open"
    /\ conn' = [conn EXCEPT ![c] = "closed"]
    /\ UNCHANGED <<pipelines, leaked, clients, statsPc, statsIter, gather, loopCalls,
                 shutdownTask>>

\* A handler that ends without its finally clause
HandlerExitKeepingClient(c) ==
    /\ c \in clients
    /\ conn[c] = "closed"
    /\ conn' = [conn EXCEPT ![c] = "none"]
    /\ UNCHANGED <<pipelines, leaked, clients, statsPc, statsIter, gather,
                   loopCalls, shutdownTask>>

\* The receive loop of c ends on the closed connection: finally, clients.remove.
HandlerExit(c) ==
    /\ c \in clients
    /\ conn[c] = "closed"
    /\ clients' = clients \ {c}
    /\ conn' = [conn EXCEPT ![c] = "none"]
    /\ UNCHANGED <<pipelines, leaked, statsPc, statsIter, gather, loopCalls,
                 shutdownTask>>

----------------------------------------------------------------------------
\* broadcast_message and send_stats_updates

\* The pipelineStats message of line 267
StatsMsg(id) == M("pipelineStats", id, None, "PLAYING")

\* broadcast_message(msg): nothing when 'clients' is empty; else one send task
\* per member of 'clients' at the call, awaited together.
broadcast_message(msg) ==
    IF clients = {} THEN NoGather
    ELSE [msg |-> msg, pending |-> clients]

\* The for loop of send_stats_updates from the iterator's next() to the next
\* await: [pc, it, gather].  next() raises RuntimeError when the dict's
\* size differs from the size at the iterator's creation, or when it finds an
\* entry after having yielded as many as the dict held; the except clause then
\* sleeps 5 s.
RECURSIVE Iterate(_)
Iterate(it) ==
    IF Len(pipelines) # it.used
    THEN [pc |-> "backoff", it |-> NoIter, gather |-> NoGather]
    ELSE IF it.idx >= Len(pipelines)
    THEN [pc |-> "sleep", it |-> NoIter, gather |-> NoGather]
    ELSE IF it.len = 0
    THEN [pc |-> "backoff", it |-> NoIter, gather |-> NoGather]
    ELSE LET e == pipelines[it.idx + 1]
             next == [it EXCEPT !.idx = @ + 1, !.len = @ - 1]
         IN  IF get_status(e.obj) = "PLAYING"
                /\ broadcast_message(StatsMsg(e.id)) # NoGather
             THEN [pc |-> "gather", it |-> next,
                   gather |-> broadcast_message(StatsMsg(e.id))]
             ELSE Iterate(next)

\* The loop runs on from iterator 'it' to its next await.
RunLoop(it) ==
    LET r == Iterate(it)
    IN  /\ statsPc' = r.pc
        /\ statsIter' = r.it
        /\ gather' = r.gather
        /\ UNCHANGED <<pipelines, leaked, clients, conn, loopCalls,
                 shutdownTask>>

\* A poll iteration starts: 'for pipeline_id, pipeline in pipelines.items()'
StartIteration ==
    RunLoop([idx |-> 0, len |-> Len(pipelines), used |-> Len(pipelines)])

\* asyncio.sleep(1) returns
StatsTick ==
    /\ statsPc = "sleep"
    /\ StartIteration

\* An except clause outside the 'while True': after the backoff the
\* coroutine returns
StatsRetryReturning ==
    /\ statsPc = "backoff"
    /\ statsPc' = "returned"
    /\ UNCHANGED <<pipelines, leaked, clients, conn, statsIter, gather,
                   loopCalls, shutdownTask>>

\* asyncio.sleep(5) of the except clause returns
StatsRetry ==
    /\ statsPc = "backoff"
    /\ StartIteration

\* SendResult for a gather without return_exceptions: the first exception
\* is raised in the awaiting coroutine
SendResultPropagating(c) ==
    [written |-> (conn[c] = "open"),
     raised |-> (conn[c] # "open"),
     pending |-> IF conn[c] = "open" THEN gather.pending \ {c} ELSE {},
     pc |-> IF conn[c] = "open" THEN statsPc ELSE "backoff"]

\* The send task of client c in the gather runs: [written, raised, pending, pc].
\* The frame is written when the connection is open; otherwise send raises
\* ConnectionClosed, which gather(return_exceptions=True) keeps as that task's
\* result: the other tasks stay and the awaiting coroutine is not resumed
\* with an exception.
SendResult(c) ==
    [written |-> (conn[c] = "open"),
     raised |-> (conn[c] # "open"),
     pending |-> gather.pending \ {c},
     pc |-> statsPc]

\* One send task created by gather runs.
SendTask(c) ==
    /\ statsPc = "gather"
    /\ c \in gather.pending
    /\ gather' = [gather EXCEPT !.pending = SendResult(c).pending]
    /\ statsPc' = SendResult(c).pc
    /\ statsIter' = IF SendResult(c).pc = "gather" THEN statsIter ELSE NoIter
    /\ UNCHANGED <<pipelines, leaked, clients, conn, loopCalls,
                 shutdownTask>>

\* All send tasks are done: gather returns and the for loop goes on.
StatsResume ==
    /\ statsPc = "gather"
    /\ gather.pending = {}
    /\ RunLoop(statsIter)

----------------------------------------------------------------------------
\* shutdown(), started by SIGINT or SIGTERM (lines 511-516)

\* The pipeline ids used where shutdown is explored
ShutdownIds == {"p1"}

\* shutdown() up to its first await, in the order of the code: delete() and
\* del for every stored object (lines 526-529), mainloop.quit() (lines
\* 532-533), then one close() per client gathered (lines 536-537); with no
\* client there is no await and loop.stop() follows (line 540).  Nothing
\* closes the server: it keeps accepting.
ShutdownEffect ==
    [pipelines |-> <<>>,
     statsIter |-> IF statsPc = "gather" THEN [statsIter EXCEPT !.idx = 0]
                   ELSE statsIter,
     task |-> [pc |-> IF clients = {} THEN "stopping" ELSE "closing",
               pending |-> clients,
               mainloop |-> "quit",
               accepting |-> TRUE]]

ShutdownStart ==
    /\ shutdownTask.pc = "none"
    /\ pipelines' = ShutdownEffect.pipelines
    /\ statsIter' = ShutdownEffect.statsIter
    /\ shutdownTask' = ShutdownEffect.task
    /\ UNCHANGED <<leaked, clients, conn, statsPc, gather, loopCalls>>

\* client.close() for c: the connection is closed when it returns; the
\* handler of c then leaves its receive loop.
CloseTask(c) ==
    /\ shutdownTask.pc = "closing"
    /\ c \in shutdownTask.pending
    /\ conn' = IF conn[c] = "open" THEN [conn EXCEPT ![c] = "closed"] ELSE conn
    /\ shutdownTask' =
           [shutdownTask EXCEPT
               !.pending = @ \ {c},
               !.pc = IF shutdownTask.pending = {c} THEN "stopping" ELSE @]
    /\ UNCHANGED <<pipelines, leaked, clients, statsPc, statsIter, gather,
                   loopCalls>>

\* loop.stop() (line 540): asyncio.run (line 544) then cancels the tasks that
\* are left, so every handler still running reaches its finally and removes
\* its client, the telemetry loop ends, and main leaves the 'async with' of
\* the server, which closes it.
ShutdownStop ==
    /\ shutdownTask.pc = "stopping"
    /\ shutdownTask' = [shutdownTask EXCEPT !.pc = "stopped", !.accepting = FALSE]
    /\ clients' = {}
    /\ conn' = [c \in Clients |-> "none"]
    /\ statsPc' = "cancelled"
    /\ statsIter' = NoIter
    /\ gather' = NoGather
    /\ UNCHANGED <<pipelines, leaked, loopCalls>>

----------------------------------------------------------------------------
\* The specification

Init ==
    /\ pipelines = <<>>
    /\ leaked = 0
    /\ clients = {}
    /\ conn = [c \in Clients |-> "none"]
    /\ statsPc = "sleep"
    /\ statsIter = NoIter
    /\ gather = NoGather
    /\ loopCalls = <<>>
    /\ shutdownTask = NoShutdown

Next ==
    \/ \E c \in Clients : Connect(c)
    \/ \E c \in Clients : ConnectionLost(c)
    \/ \E c \in Clients : HandlerExit(c)
    \/ \E id \in Ids, el \in ElementInputs : CreatePipeline(id, el)
    \/ \E id \in Ids \cup {None}, ret \in StateChangeReturns : StartPipeline(id, ret)
    \/ \E id \in Ids \cup {None}, ret \in StateChangeReturns : StopPipeline(id, ret)
    \/ \E id \in Ids \cup {None} : DeletePipeline(id)
    \/ GetPipelines
    \/ \E c \in Clients, kind \in OtherInputs : OtherMessage(c, kind)
    \/ \E id \in Ids : EngineStep(id)
    \/ \E id \in Ids, kind \in {"ERROR", "EOS", "STATE_CHANGED_ELEMENT"} :
          EngineEvent(id, kind)
    \/ StatsTick
    \/ StatsRetry
    \/ \E c \in Clients : SendTask(c)
    \/ StatsResume

Spec == Init /\ [][Next]_vars

\* The program while it serves, explored with the ids of PollingIds, with
\* the timer of the backoff sleep (line 277) firing: the event loop runs a
\* timer callback once it is due.
PollingIds == {"p1"}

NextPolling ==
    \/ \E c \in Clients : Connect(c)
    \/ \E c \in Clients : ConnectionLost(c)
    \/ \E c \in Clients : HandlerExit(c)
    \/ \E id \in PollingIds, el \in ElementInputs : CreatePipeline(id, el)
    \/ \E id \in PollingIds \cup {None}, ret \in StateChangeReturns :
          StartPipeline(id, ret)
    \/ \E id \in PollingIds \cup {None}, ret \in StateChangeReturns :
          StopPipeline(id, ret)
    \/ \E id \in PollingIds \cup {None} : DeletePipeline(id)
    \/ GetPipelines
    \/ \E c \in Clients, kind \in OtherInputs : OtherMessage(c, kind)
    \/ \E id \in PollingIds : EngineStep(id)
    \/ \E id \in PollingIds, kind \in {"ERROR", "EOS", "STATE_CHANGED_ELEMENT"} :
          EngineEvent(id, kind)
    \/ StatsTick
    \/ StatsRetry
    \/ \E c \in Clients : SendTask(c)
    \/ StatsResume

PollingSpec == Init /\ [][NextPolling]_vars /\ WF_vars(StatsRetry)

\* Once the loop has stopped nothing runs.
LoopRunning == shutdownTask.pc # "stopped"

\* The program with a shutdown signal, explored with the ids of ShutdownIds.
NextShutdown ==
    \/ \E c \in Clients : LoopRunning /\ Connect(c)
    \/ \E c \in Clients : LoopRunning /\ ConnectionLost(c)
    \/ \E c \in Clients : LoopRunning /\ HandlerExit(c)
    \/ \E id \in ShutdownIds, el \in ElementInputs :
          LoopRunning /\ CreatePipeline(id, el)
    \/ \E id \in ShutdownIds \cup {None}, ret \in StateChangeReturns :
          LoopRunning /\ StartPipeline(id, ret)
    \/ \E id \in ShutdownIds \cup {None}, ret \in StateChangeReturns :
          LoopRunning /\ StopPipeline(id, ret)
    \/ \E id \in ShutdownIds \cup {None} : LoopRunning /\ DeletePipeline(id)
    \/ LoopRunning /\ GetPipelines
    \/ \E c \in Clients, kind \in OtherInputs : LoopRunning /\ OtherMessage(c, kind)
    \/ \E id \in ShutdownIds : LoopRunning /\ EngineStep(id)
    \/ \E id \in ShutdownIds, kind \in {"ERROR", "EOS", "STATE_CHANGED_ELEMENT"} :
          LoopRunning /\ EngineEvent(id, kind)
    \/ LoopRunning /\ StatsTick
    \/ LoopRunning /\ StatsRetry
    \/ \E c \in Clients : LoopRunning /\ SendTask(c)
    \/ LoopRunning /\ StatsResume
    \/ ShutdownStart
    \/ \E c \in Clients : CloseTask(c)
    \/ ShutdownStop

ShutdownSpec == Init /\ [][NextShutdown]_vars

----------------------------------------------------------------------------
\* Properties.  A handler's reply and what it leaves behind are read off its
\* effect in every reachable state in which a client's handler can run it.

\* C1: a startPipeline, stopPipeline or deletePipeline command naming an id
\* that is not in the registry (never registered, or removed) is answered to
\* the client that sent it with pipelineError "not-found"; the registry is
\* left as it was and the engine is not called.
C1_UnknownIdNotFound ==
    \A c \in Clients, id \in Ids \cup {None}, ret \in StateChangeReturns :
        (Receiving(c) /\ NotFound(id)) =>
            \A e \in {StartEffect(id, ret), StopEffect(id, ret), DeleteEffect(id)} :
                /\ Send(c, e.reply) =
                       [to |-> c,
                        msg |-> M("pipelineError", id, "not-found", None),
                        ok |-> (conn[c] = "open")]
                /\ e.pipelines = pipelines
                /\ e.leaked = leaked
                /\ ~e.engine

\* A client's handler is receiving, p2 is registered and playing, p1 is not
\* registered: a command for p1 is one for an unknown id.
C1_Witness ==
    /\ \E c \in Clients : Receiving(c) /\ conn[c] = "open"
    /\ "p1" \notin RegIds
    /\ "p2" \in RegIds
    /\ Lookup("p2").state = "PLAYING"
    /\ DeleteEffect("p1").reply.code = "not-found"

\* C2: a createPipeline command for an id that is already registered fails:
\* the reply is an error, and the registry and the objects it holds are left
\* as they were.
C2_DuplicateCreateFails ==
    \A c \in Clients, id \in RegIds, el \in ElementInputs :
        Receiving(c) =>
            LET e == CreateEffect(id, el)
            IN  /\ e.reply.type = "pipelineError"
                /\ e.pipelines = pipelines
                /\ e.leaked = leaked

\* C3: every engine pipeline that was created and not released, and every
\* active bus watch, belongs to the object the registry holds under its id.
C3_NoPipelineOutlivesEntry ==
    /\ leaked = 0
    /\ \A i \in DOMAIN pipelines : pipelines[i].obj.id = pipelines[i].id

\* C10: a createPipeline command with an empty or missing element list is
\* answered with pipelineError "invalid-pipeline", does not call the engine
\* and leaves the registry as it was.
C10_EmptyElementsRejected ==
    \A c \in Clients, id \in Ids, el \in {"missing", "empty"} :
        Receiving(c) =>
            LET e == CreateEffect(id, el)
            IN  /\ Send(c, e.reply).msg =
                       M("pipelineError", id, "invalid-pipeline", None)
                /\ ~e.engine
                /\ e.pipelines = pipelines
                /\ e.leaked = leaked

\* A client's handler is receiving and p1 is registered: a createPipeline for
\* p1 with no elements would replace it if it were not rejected.
C10_Witness ==
    /\ \E c \in Clients : Receiving(c)
    /\ "p1" \in RegIds
    /\ Lookup("p1").target = "PLAYING"
    /\ CreateEffect("p1", "empty").reply.code = "invalid-pipeline"
    /\ CreateEffect("p1", "valid").reply.type = "pipelineCreated"

\* The bus messages of a pipeline that the callback relays
RelayedKinds == {"ERROR", "EOS", "STATE_CHANGED"}

\* C4: when a registered pipeline raises two events one after the other, the
\* dispatch loop is handed the message of the first and then the message of
\* the second, so that every client connected for both receives them in that
\* order.
C4_EventsRelayedInOrder ==
    \A id \in RegIds, k1 \in RelayedKinds, k2 \in RelayedKinds :
        Lookup(id).bus_watch_id =>
            LET self == Lookup(id)
                first == bus_callback(self, k1, self.target, loopCalls)
                second == bus_callback(self, k2, self.target, first.calls)
            IN  second.calls =
                    loopCalls \o <<bus_message(self, k1, self.target),
                                   bus_message(self, k2, self.target)>>

\* C5: every ERROR, EOS or pipeline STATE_CHANGED message raised for a pipeline
\* whose bus watch is active is handed to the dispatch loop exactly once: the
\* callback schedules one broadcast_message call for it.
C5_EventHandedOverOnce ==
    \A id \in RegIds, kind \in RelayedKinds :
        Lookup(id).bus_watch_id =>
            LET r == bus_callback(Lookup(id), kind, Lookup(id).target, loopCalls)
            IN  /\ r.outcome = "scheduled"
                /\ Len(r.calls) = Len(loopCalls) + 1

\* C6: once deletePipeline has removed p from the registry no message naming
\* p is written to a client: every send task that writes a frame writes one
\* about a registered pipeline.
C6_NoMessageAfterDelete ==
    [][\A c \in Clients :
          (SendTask(c) /\ SendResult(c).written) => gather.msg.id \in RegIds]_vars

\* C9: a telemetry iteration broadcasts pipelineStats for every registered
\* pipeline that is PLAYING, also when commands create or delete pipelines
\* while it is suspended in a broadcast: an iteration never ends with a
\* PLAYING pipeline it has not visited.
C9_EveryPlayingPipelinePolled ==
    (statsPc = "gather" /\ gather.pending = {} /\ Iterate(statsIter).pc = "backoff") =>
        \A i \in (statsIter.idx + 1)..Len(pipelines) :
            get_status(pipelines[i].obj) # "PLAYING"

\* C7 as stated: after a deletePipeline has removed an id, a second
\* deletePipeline for the same id is not an error, is answered as the first
\* was, and leaves the state the first left.
C7_SecondDeleteNotError ==
    [][\A id \in Ids :
          (id \in RegIds /\ id \notin RegIds') =>
              /\ (DeleteEffect(id).reply.type # "pipelineError")'
              /\ (DeleteEffect(id).reply)' = DeleteEffect(id).reply
              /\ (DeleteEffect(id).pipelines = pipelines)']_vars

\* C7: delete() is idempotent on the object: called again on a deleted object
\* it changes nothing and returns the same result, never an error, and the
\* object's status is NULL with no bus watch left.  After a step that removed
\* an id from the registry (a deletePipeline), a deletePipeline command for
\* that id is answered with pipelineError "not-found" and leaves the registry
\* as the first left it.
C7_DeleteIdempotentOnHandle ==
    /\ [](\A i \in DOMAIN pipelines :
            LET first == delete(pipelines[i].obj)
                second == delete(first.self)
            IN  /\ second = first
                /\ first.result.code = None
                /\ get_status(first.self) = "NULL"
                /\ ~first.self.bus_watch_id)
    /\ [][\A id \in Ids :
            (id \in RegIds /\ id \notin RegIds') =>
                /\ (DeleteEffect(id).reply = NotFoundReply(id))'
                /\ (DeleteEffect(id).pipelines = pipelines)'
                /\ (DeleteEffect(id).leaked = leaked)']_vars

\* p1 was removed by a deletePipeline while its pipelineStats was being sent,
\* a client can send the command again, and p2 is registered and playing.
C7_Witness ==
    /\ \E c \in Clients : Receiving(c)
    /\ gather.msg.id = "p1"
    /\ "p1" \notin RegIds
    /\ "p2" \in RegIds
    /\ Lookup("p2").state = "PLAYING"
    /\ delete(delete(Lookup("p2")).self) = delete(Lookup("p2"))

\* C8: when the send to a client fails during a broadcast, the awaiting
\* coroutine is not resumed with the failure and the sends to the other
\* clients of the broadcast stay pending with the same message; every pending
\* send belongs to a broadcast that is still awaited.
C8_FanOutIsolation ==
    /\ [](gather.pending # {} => statsPc = "gather")
    /\ [][\A a \in Clients :
            (SendTask(a) /\ ~SendResult(a).written) =>
                /\ statsPc' = "gather"
                /\ gather'.msg = gather.msg
                /\ gather'.pending = gather.pending \ {a}]_vars

\* A broadcast is in flight to two clients, the connection of one is closed
\* and that of the other is open.
C8_Witness ==
    /\ statsPc = "gather"
    /\ \E a \in gather.pending, b \in gather.pending :
          /\ conn[a] = "closed"
          /\ conn[b] = "open"
          /\ SendResult(a).raised
          /\ b \in SendResult(a).pending

\* C11: when the engine rejects the description in create(), the sender is
\* answered with pipelineError "creation-failed", the registry, an existing
\* entry under the same id included, is left as it was, and the object that
\* failed holds no engine pipeline and no bus watch.
C11_CreationFailedNotRegistered ==
    \A c \in Clients, id \in Ids :
        Receiving(c) =>
            LET e == CreateEffect(id, "rejected")
                failed == create(NewHandle(id), "rejected").self
            IN  /\ Send(c, e.reply).msg =
                       M("pipelineError", id, "creation-failed", None)
                /\ e.engine
                /\ e.pipelines = pipelines
                /\ e.leaked = leaked
                /\ ~failed.pipeline
                /\ ~failed.bus_watch_id

\* A client's handler is receiving and p1 is registered and started: a
\* createPipeline for p1 that the engine rejects meets an existing entry.
C11_Witness ==
    /\ \E c \in Clients : Receiving(c)
    /\ "p1" \in RegIds
    /\ Lookup("p1").target = "PLAYING"
    /\ "p2" \notin RegIds
    /\ CreateEffect("p1", "rejected").reply.code = "creation-failed"

\* C12: a pipeline that was created and has not been asked to change state
\* reports status NULL, and the pipelineCreated reply carries state NULL and
\* stores an object whose status is NULL.
C12_NullAfterCreate ==
    /\ \A i \in DOMAIN pipelines :
          pipelines[i].obj.target = "NULL" => get_status(pipelines[i].obj) = "NULL"
    /\ \A c \in Clients, id \in Ids :
          Receiving(c) =>
              LET e == CreateEffect(id, "valid")
              IN  /\ Send(c, e.reply).msg = M("pipelineCreated", id, None, "NULL")
                  /\ \A k \in DOMAIN e.pipelines :
                        e.pipelines[k].id = id =>
                            get_status(e.pipelines[k].obj) = "NULL"

\* p1 is registered and was never started or stopped while p2 has reached
\* PLAYING.
C12_Witness ==
    /\ "p1" \in RegIds
    /\ Lookup("p1").pipeline
    /\ Lookup("p1").target = "NULL"
    /\ "p2" \in RegIds
    /\ Lookup("p2").state = "PLAYING"
    /\ get_status(Lookup("p1")) = "NULL"

\* The ids a pipelinesList message names
ListIds(msg) == {msg.pipelines[k].id : k \in DOMAIN msg.pipelines}

\* C13: a deletePipeline for a registered id removes it, and while an id is
\* not registered no pipelinesList names it, neither the reply to getPipelines
\* nor the snapshot sent to a new connection.
C13_DeletedNotListed ==
    \A id \in Ids :
        /\ id \in RegIds =>
              LET e == DeleteEffect(id)
              IN  /\ e.reply.type = "pipelineDeleted"
                  /\ \A k \in DOMAIN e.pipelines : e.pipelines[k].id # id
        /\ id \notin RegIds =>
              /\ id \notin ListIds(GetPipelinesEffect.reply)
              /\ \A c \in Clients : id \notin ListIds(ConnectEffect(c).reply)
        /\ ListIds(GetPipelinesEffect.reply) \subseteq RegIds

\* p2 was removed by a deletePipeline while its pipelineStats was being sent;
\* p1 is still registered and a client can ask for the list.
C13_Witness ==
    /\ \E c \in Clients : Receiving(c) /\ conn[c] = "open"
    /\ gather.msg.id = "p2"
    /\ "p2" \notin RegIds
    /\ "p1" \in RegIds
    /\ ListIds(GetPipelinesEffect.reply) = {"p1"}

\* C14: shutdown stops accepting connections first, then deletes the
\* pipelines, then closes the client connections, and quits the GLib main
\* loop only after that: once shutdown has begun the server no longer
\* accepts, and the main loop has quit only when no close() is pending and no
\* connection is open.
C14_ShutdownOrder ==
    /\ shutdownTask.pc # "none" => ~shutdownTask.accepting
    /\ shutdownTask.mainloop = "quit" =>
          /\ shutdownTask.pending = {}
          /\ \A c \in Clients : conn[c] # "open"

\* C15: a client is in the set 'clients' exactly while its handler runs,
\* whatever ended the connection; a client whose handler has ended is not a
\* target of a new broadcast and no frame of a broadcast still in flight is
\* written to it; after shutdown has stopped the loop the set is empty.
C15_RegisteredWhileHandlerRuns ==
    /\ \A c \in Clients :
          /\ c \in clients <=> conn[c] \in {"open", "closed"}
          /\ conn[c] = "none" =>
                /\ c \notin broadcast_message(StatsMsg("p1")).pending
                /\ c \in gather.pending => ~SendResult(c).written
    /\ shutdownTask.pc = "stopped" => clients = {}

\* Shutdown is closing the connections; the handler of a client that was a
\* target of the broadcast in flight has ended, with its send still pending,
\* while another client's close() has not returned.
C15_Witness ==
    /\ shutdownTask.pc = "closing"
    /\ \E c \in gather.pending, d \in shutdownTask.pending :
          /\ c \notin clients
          /\ conn[c] = "none"
          /\ c \notin shutdownTask.pending
          /\ d \in clients

\* C16: a new connection registers the client and sends it, in the same step,
\* a pipelinesList with the status of exactly the registered pipelines in
\* insertion order; no broadcast in flight has the new client as a target and
\* none starts before the snapshot is sent.
C16_SnapshotOnConnect ==
    /\ [](\A c \in Clients :
            (conn[c] = "none" /\ c \notin gather.pending) =>
                LET e == ConnectEffect(c)
                IN  /\ c \in e.clients
                    /\ e.conn[c] = "open"
                    /\ e.reply.type = "pipelinesList"
                    /\ Len(e.reply.pipelines) = Len(pipelines)
                    /\ \A i \in DOMAIN pipelines :
                          e.reply.pipelines[i] =
                              [id |-> pipelines[i].id,
                               state |-> get_status(pipelines[i].obj)])
    /\ [][\A c \in Clients :
            (c \notin clients /\ c \in clients') =>
                /\ gather' = gather
                /\ c \notin gather'.pending
                /\ pipelines' = pipelines]_vars

\* Two pipelines are registered, p2 before p1, a broadcast is in flight and a
\* websocket is free to connect: its snapshot lists p2 first.
C16_Witness ==
    /\ statsPc = "gather"
    /\ gather.pending # {}
    /\ Len(pipelines) = 2
    /\ pipelines[1].id = "p2"
    /\ \E c \in Clients :
          /\ conn[c] = "none"
          /\ c \notin gather.pending
          /\ ConnectEffect(c).reply.pipelines[1].id = "p2"

\* C17: a message that is not JSON, is not a JSON object, or has a type no
\* branch handles gets no reply and leaves the registry, the client set and
\* the connection as they were; the handler stays in its receive loop.
C17_BadInputIgnored ==
    \A c \in Clients, kind \in {"malformed", "not-object", "unknown"} :
        Receiving(c) =>
            LET e == OtherEffect(c, kind)
            IN  /\ e.reply = NoMsg
                /\ e.pipelines = pipelines
                /\ e.clients = clients
                /\ e.conn = conn
                /\ c \in e.clients

\* A client with an open connection is receiving and a pipeline is
\* registered: text that is not JSON is ignored, a ping is answered.
C17_Witness ==
    /\ pipelines # <<>>
    /\ \E c \in Clients :
          /\ Receiving(c)
          /\ conn[c] = "open"
          /\ OtherEffect(c, "malformed").reply = NoMsg
          /\ OtherEffect(c, "ping").reply.type = "pong"

C19_ReleaseAfterUnregister ==
    \A id \in RegIds :
        \A k \in DOMAIN RemoveSteps(id) :
            RemoveSteps(id)[k].registered => RemoveSteps(id)[k].obj.pipeline

\* C20: a startPipeline, stopPipeline or deletePipeline for a registered id
\* operates on the object found by its membership check, with no other
\* command in between: the object is never one that was already deleted, so
\* start and stop never meet a released pipeline and a delete always
\* releases a live one and removes its entry.
C20_LookupAndOperationAtomic ==
    \A id \in RegIds, ret \in StateChangeReturns :
        /\ Lookup(id).pipeline
        /\ StartEffect(id, ret).reply.code # "not-created"
        /\ StopEffect(id, ret).reply.code # "not-created"
        /\ DeleteEffect(id).reply.type = "pipelineDeleted"
        /\ Len(DeleteEffect(id).pipelines) = Len(pipelines) - 1

\* Two clients have handlers receiving on open connections and p1 is
\* registered and playing: both can send a command for p1.
C20_Witness ==
    /\ \A c \in Clients : Receiving(c) /\ conn[c] = "open"
    /\ "p1" \in RegIds
    /\ Lookup("p1").state = "PLAYING"
    /\ StartEffect("p1", "SUCCESS").reply.type = "pipelineStateChanged"

\* C21: the telemetry loop never ends on its own: it is always sleeping,
\* awaiting a broadcast or backing off, and whenever an exception during a
\* poll iteration has sent it into its backoff it eventually starts a further
\* iteration.
C21_PollingResumes ==
    /\ [](statsPc \in {"sleep", "gather", "backoff"})
    /\ (statsPc = "backoff") ~> (statsPc \in {"sleep", "gather"})

\* An exception ended a poll iteration: the only registered pipeline was
\* deleted while its pipelineStats was being sent, and the loop backs off.
C21_Witness ==
    /\ statsPc = "backoff"
    /\ pipelines = <<>>
    /\ \E c \in Clients : Receiving(c)

\* C22: between commands every object stored in the registry holds its
\* engine pipeline and its bus watch, under the id it was created with, also
\* while shutdown runs; start() and stop() on a stored object therefore
\* never return "not-created".
C22_RegisteredHandlesLive ==
    \A i \in DOMAIN pipelines, ret \in StateChangeReturns :
        LET self == pipelines[i].obj
        IN  /\ self.pipeline
            /\ self.bus_watch_id
            /\ self.id = pipelines[i].id
            /\ start(self, ret).result.code # "not-created"
            /\ stop(self, ret).result.code # "not-created"
            /\ StartEffect(pipelines[i].id, ret).reply.code # "not-created"
            /\ StopEffect(pipelines[i].id, ret).reply.code # "not-created"

\* Shutdown has deleted the pipelines and is closing the connections; a
\* client whose handler still runs has created p1 again, and an earlier
\* object for p1 had been replaced.
C22_Witness ==
    /\ shutdownTask.pc = "closing"
    /\ \E c \in Clients : Receiving(c)
    /\ "p1" \in RegIds
    /\ Lookup("p1").pipeline
    /\ leaked = 1

====
